---- MODULE Spec2Model ----
(***************************************************************************)
(* Model of hackathon_judge.py: the scores.csv store, submit_score,       *)
(* generate_report and calculate_final_score.                              *)
(*                                                                         *)
(* Strings are sequences of one-character strings, so that strip() and    *)
(* lower() are computed and not assumed.  Decimal numbers (the means and   *)
(* final scores, which the code rounds to 2 decimals) are integers         *)
(* counting hundredths.  pandas' read_csv / to_csv are modelled by what    *)
(* they do to a cell: NaN is written as the empty field and the fields     *)
(* "" and "NA" are read back as NaN.  Each of read_csv and to_csv is one   *)
(* step.  The text rendering of the report (bars, medals, footer) is not   *)
(* modelled: a report is its ranked list and its not-yet-scored list.      *)
(***************************************************************************)
EXTENDS Integers, Sequences, FiniteSets, TLC

VARIABLES file, last, thr, nwrites, args, score

vars == <<file, last, thr, nwrites, args, score>>

---------------------------------------------------------------------------
(* Bounds of the model *)

\* a submit that would leave more rows than this in the store is not explored
MaxRows == 3
\* timestamps are drawn from 1..MaxTime
MaxTime == 1
\* most rows of the store in the specification of the report
MaxRanked == 2

---------------------------------------------------------------------------
(* Values *)

\* Python's None, and pandas' NaN cell: one-element sequences whose element
\* is no character, so they compare with strings without being one
None == <<"<None>">>
NaN == <<"<NaN>">>

\* rating range of the validation
MinRating == 0
MaxRating == 5

\* three of the fifteen names of TEAM_NAMES
Fluid == <<"F", "l", "u", "i", "d">>
Ironold == <<"I", "r", "o", "n", "o", "l", "d">>
Team1 == <<"T", "e", "a", "m", " ", "1">>
TEAM_NAMES == {Fluid, Ironold, Team1}

\* judge names the text box can hand over: plain, with a capital and a
\* trailing blank, and one that the CSV reader takes for a missing value
Judge_al == <<"a", "l">>
Judge_Al == <<"A", "l", " ">>
Judge_NA == <<"N", "A">>
ValidJudges == {Judge_al, Judge_Al, Judge_NA}
\* no name: nothing typed, blanks only, or None
BlankJudges == {<<>>, <<" ">>, None}

\* rating vectors <<go_live, usefulness, taste, problem_statement>>
ValidRatings == { <<4, 3, 5, 2>>, <<5, 5, 5, 5>> }
InvalidRatings == { <<0, -1, 0, 0>>, <<3, 3, 6, 3>> }

\* the calls explored: <<judge_name, team_name, ratings>>.  Every valid
\* combination, and each kind of invalid argument once.
Calls ==
  (ValidJudges \X TEAM_NAMES \X ValidRatings)
    \cup (BlankJudges \X {Fluid} \X {<<4, 3, 5, 2>>})
    \cup ({Judge_al} \X {None, <<>>} \X {<<4, 3, 5, 2>>})
    \cup ({Judge_al} \X {Fluid} \X InvalidRatings)

Times == 1..MaxTime

\* the calls made where the report is examined: valid ones, by two judges
RankCalls == {Judge_al, Judge_NA} \X TEAM_NAMES \X ValidRatings

---------------------------------------------------------------------------
(* str.strip, str.lower, string order *)

RECURSIVE LStrip(_)
LStrip(s) == IF s # <<>> /\ Head(s) = " " THEN LStrip(Tail(s)) ELSE s

RECURSIVE RStrip(_)
RStrip(s) ==
  IF s # <<>> /\ s[Len(s)] = " " THEN RStrip(SubSeq(s, 1, Len(s) - 1)) ELSE s

Strip(s) == RStrip(LStrip(s))

LowerChar(c) ==
  CASE c = "A" -> "a"
    [] c = "F" -> "f"
    [] c = "I" -> "i"
    [] c = "N" -> "n"
    [] c = "T" -> "t"
    [] OTHER -> c

Lower(s) == [i \in 1..Len(s) |-> LowerChar(s[i])]

\* code points of the characters of the team names
Ord(c) ==
  CASE c = " " -> 32 [] c = "1" -> 49 [] c = "F" -> 70 [] c = "I" -> 73
    [] c = "T" -> 84 [] c = "a" -> 97 [] c = "d" -> 100 [] c = "e" -> 101
    [] c = "i" -> 105 [] c = "l" -> 108 [] c = "m" -> 109 [] c = "n" -> 110
    [] c = "o" -> 111 [] c = "r" -> 114 [] c = "u" -> 117

RECURSIVE StrLess(_, _)
StrLess(a, b) ==
  IF b = <<>> THEN FALSE
  ELSE IF a = <<>> THEN TRUE
  ELSE IF Head(a) = Head(b) THEN StrLess(Tail(a), Tail(b))
  ELSE Ord(Head(a)) < Ord(Head(b))

\* sorted(S) for a set of strings
RECURSIVE Sorted(_)
Sorted(S) ==
  IF S = {} THEN <<>>
  ELSE LET m == CHOOSE x \in S : \A y \in S \ {x} : StrLess(x, y)
       IN <<m>> \o Sorted(S \ {m})

---------------------------------------------------------------------------
(* The store file and the CSV conversions *)

\* the file after module initialisation: the header row and no data row
HeaderOnly == [st |-> "table", rows |-> <<>>]

\* the fields pandas reads as missing, among the strings of the model
NaValues == { <<>>, <<"N", "A">> }

ParseCell(text) == IF text \in NaValues THEN NaN ELSE text

FormatCell(cell) == IF cell = NaN THEN <<>> ELSE cell

ParseRow(r) ==
  [r EXCEPT !.judge_name = ParseCell(r.judge_name),
            !.team_name = ParseCell(r.team_name)]

FormatRow(r) ==
  [r EXCEPT !.judge_name = FormatCell(r.judge_name),
            !.team_name = FormatCell(r.team_name)]

\* pd.read_csv('scores.csv'): the frame, or the exception raised
read_csv(f) ==
  CASE f.st = "absent" -> [exc |-> "FileNotFoundError", df |-> <<>>]
    [] f.st = "zero" -> [exc |-> "EmptyDataError", df |-> <<>>]
    [] OTHER -> [exc |-> "none",
                 df |-> [i \in 1..Len(f.rows) |-> ParseRow(f.rows[i])]]

\* scores_df.to_csv('scores.csv', index=False): the file written
to_csv(df) ==
  [st |-> "table", rows |-> [i \in 1..Len(df) |-> FormatRow(df[i])]]

---------------------------------------------------------------------------
(* submit_score *)

Msg_Name == "Please enter your name!"
Msg_Team == "Please select a team!"
Msg_Range == "All scores must be between 0 and 5!"
Msg_Ok == "Score submitted successfully for team"
Msg_SubmitError == "Error submitting score"
Msg_Empty == "No scores submitted yet!"
Msg_Report == "HACKATHON FINAL RANKINGS"
Msg_ReportError == "Error generating report"

\* lines 29-32, before the try block: "raised" is an exception leaving the call
NameCheck(judge_name, team_name) ==
  CASE judge_name = None -> [kind |-> "raised", msg |-> "AttributeError"]
    [] Strip(judge_name) = <<>> -> [kind |-> "returned", msg |-> Msg_Name]
    [] team_name \in {None, <<>>} -> [kind |-> "returned", msg |-> Msg_Team]
    [] OTHER -> [kind |-> "pass", msg |-> ""]

\* any(score < 0 or score > 5 for score in scores)
OutOfRange(ratings) ==
  \E i \in 1..4 : ratings[i] < MinRating \/ ratings[i] > MaxRating

\* the .str accessor raises on a column that holds no string: a column read
\* with every field missing is a float column
StrAccessorRaises(df) == \A i \in 1..Len(df) : df[i].judge_name = NaN

\* (judge_name.str.lower() == judge_name.strip().lower()) & (team_name == team_name)
\* for one row; a NaN cell lowers to NaN and equals nothing
IsDuplicate(row, judge_name, team_name) ==
  /\ row.judge_name # NaN
  /\ Lower(row.judge_name) = Lower(Strip(judge_name))
  /\ row.team_name = team_name

NewScore(judge_name, team_name, ratings, now) ==
  [timestamp |-> now,
   judge_name |-> Strip(judge_name),
   team_name |-> Strip(team_name),
   go_live |-> ratings[1],
   usefulness |-> ratings[2],
   taste |-> ratings[3],
   problem_statement |-> ratings[4]]

\* lines 46-57
RemovePrevious(df, judge_name, team_name) ==
  IF Len(df) > 0
  THEN LET duplicate == SelectSeq(df, LAMBDA r : IsDuplicate(r, judge_name, team_name))
       IN IF duplicate # <<>>
          THEN SelectSeq(df, LAMBDA r : ~IsDuplicate(r, judge_name, team_name))
          ELSE df
  ELSE df

\* lines 34-70 on the file read: the outcome and, if the call goes on to
\* write, the frame handed to to_csv
Prepare(f, judge_name, team_name, ratings, now) ==
  LET rd == read_csv(f)
      scores_df == IF rd.exc = "EmptyDataError" THEN <<>> ELSE rd.df
  IN CASE rd.exc = "FileNotFoundError" ->
            [kind |-> "returned", msg |-> Msg_SubmitError, write |-> FALSE, df |-> <<>>]
       [] rd.exc # "FileNotFoundError" /\ OutOfRange(ratings) ->
            [kind |-> "returned", msg |-> Msg_Range, write |-> FALSE, df |-> <<>>]
       [] rd.exc # "FileNotFoundError" /\ ~OutOfRange(ratings)
            /\ Len(scores_df) > 0 /\ StrAccessorRaises(scores_df) ->
            [kind |-> "returned", msg |-> Msg_SubmitError, write |-> FALSE, df |-> <<>>]
       [] OTHER ->
            [kind |-> "returned", msg |-> Msg_Ok, write |-> TRUE,
             df |-> RemovePrevious(scores_df, judge_name, team_name)
                      \o <<NewScore(judge_name, team_name, ratings, now)>>]

---------------------------------------------------------------------------
(* calculate_final_score and generate_report *)

\* round(x, 2) of the exact quotient num / den, counted in hundredths when num
\* is: to the nearest, a tie to the even neighbour
RoundDiv(num, den) ==
  LET q == num \div den
      r == num % den
  IN IF 2 * r < den THEN q
     ELSE IF 2 * r > den THEN q + 1
     ELSE IF q % 2 = 0 THEN q ELSE q + 1

\* weights 0.30, 0.30, 0.20, 0.20 in hundredths
W_go_live == 30
W_usefulness == 30
W_taste == 20
W_problem_statement == 20
\* the factor to the 100-point scale
Scale == 20

\* the weights of usefulness and taste exchanged
calculate_final_score_swapped(go_live, usefulness, taste, problem_statement) ==
  RoundDiv((go_live * W_go_live + usefulness * W_taste
            + taste * W_usefulness + problem_statement * W_problem_statement) * Scale,
           100)

\* the four arguments and the result count hundredths: the weighted sum
\* counts ten-thousandths, and round(final_score, 2) brings it to hundredths
calculate_final_score(go_live, usefulness, taste, problem_statement) ==
  RoundDiv((go_live * W_go_live + usefulness * W_usefulness
            + taste * W_taste + problem_statement * W_problem_statement) * Scale,
           100)

RECURSIVE SumOf(_, _)
SumOf(rows, col) ==
  IF rows = <<>> THEN 0 ELSE rows[1][col] + SumOf(Tail(rows), col)

\* .mean() then .round(2), in hundredths
Mean2(rows, col) == RoundDiv(100 * SumOf(rows, col), Len(rows))

\* scores_df.groupby('team_name').agg(...).round(2) and the final_score column,
\* for one team; 'count' counts the judge_name cells that are not missing
TeamStats(df, team) ==
  LET g == SelectSeq(df, LAMBDA r : r.team_name = team)
      go_live == Mean2(g, "go_live")
      usefulness == Mean2(g, "usefulness")
      taste == Mean2(g, "taste")
      problem_statement == Mean2(g, "problem_statement")
  IN [team |-> team,
      num_judges |-> Len(SelectSeq(g, LAMBDA r : r.judge_name # NaN)),
      go_live |-> go_live,
      usefulness |-> usefulness,
      taste |-> taste,
      problem_statement |-> problem_statement,
      final_score |-> calculate_final_score(go_live, usefulness, taste, problem_statement)]

\* team_stats.index: the teams with a row
ScoredTeams(df) == {df[i].team_name : i \in 1..Len(df)} \ {NaN}

\* is the sequence in the order sort_values(ascending=False) leaves
Descending(seq) ==
  \A i \in 1..Len(seq) - 1 : seq[i].final_score >= seq[i + 1].final_score

\* the sort with ascending left at its default
sort_values_ascending(stats) ==
  LET n == Cardinality(stats)
  IN {seq \in [1..n -> stats] :
        /\ \A i, j \in 1..n : i # j => seq[i] # seq[j]
        /\ \A i \in 1..n - 1 : seq[i].final_score <= seq[i + 1].final_score}

\* team_stats.sort_values('final_score', ascending=False): every order the
\* sort may leave (it is not stable, so equal scores come in any order)
sort_values(stats) ==
  LET n == Cardinality(stats)
  IN {seq \in [1..n -> stats] :
        /\ \A i, j \in 1..n : i # j => seq[i] # seq[j]
        /\ Descending(seq)}

\* the difference taken against the judges in place of the teams
UnscoredTeams_judges(df) ==
  Sorted(TEAM_NAMES \ {df[i].judge_name : i \in 1..Len(df)})

\* set(TEAM_NAMES) - set(team_stats.index), sorted
UnscoredTeams(df) == Sorted(TEAM_NAMES \ ScoredTeams(df))

\* the reports generate_report may return on file f
Reports(f) ==
  LET rd == read_csv(f)
  IN IF rd.exc # "none"
     THEN {[kind |-> "returned", msg |-> Msg_ReportError, ranked |-> <<>>, unscored |-> <<>>]}
     ELSE IF Len(rd.df) = 0
     THEN {[kind |-> "returned", msg |-> Msg_Empty, ranked |-> <<>>, unscored |-> <<>>]}
     ELSE {[kind |-> "returned", msg |-> Msg_Report, ranked |-> ranked,
            unscored |-> UnscoredTeams(rd.df)] :
             ranked \in sort_values({TeamStats(rd.df, t) : t \in ScoredTeams(rd.df)})}

---------------------------------------------------------------------------
(* State *)

Procs == {1, 2}

NoRatings == <<0, 0, 0, 0>>

\* last: the last call made and what it gave back
NoCall ==
  [op |-> "none", judge_name |-> None, team_name |-> None, ratings |-> NoRatings,
   kind |-> "returned", msg |-> "", ranked |-> <<>>, unscored |-> <<>>]

SubmitCall(judge_name, team_name, ratings, kind, msg) ==
  [op |-> "submit", judge_name |-> judge_name, team_name |-> team_name,
   ratings |-> ratings, kind |-> kind, msg |-> msg, ranked |-> <<>>, unscored |-> <<>>]

ReportCall(rep) ==
  [op |-> "report", judge_name |-> None, team_name |-> None, ratings |-> NoRatings,
   kind |-> rep.kind, msg |-> rep.msg, ranked |-> rep.ranked, unscored |-> rep.unscored]

\* a thread that has not called submit_score yet
IdleThread ==
  [pc |-> "idle", judge_name |-> None, team_name |-> None, ratings |-> NoRatings,
   df |-> <<>>, kind |-> "returned", msg |-> "", readAt |-> 0, wroteAt |-> 0]

Init ==
  /\ file = HeaderOnly
  /\ last = NoCall
  /\ thr = [p \in Procs |-> IdleThread]
  /\ nwrites = 0
  /\ args = NoRatings
  /\ score = 0

---------------------------------------------------------------------------
(* One call at a time *)

\* submit_score(judge_name, team_name, go_live, usefulness, taste, problem_statement)
submit_score(judge_name, team_name, ratings, now) ==
  LET chk == NameCheck(judge_name, team_name)
      prep == Prepare(file, judge_name, team_name, ratings, now)
  IN /\ IF chk.kind # "pass"
        THEN /\ last' = SubmitCall(judge_name, team_name, ratings, chk.kind, chk.msg)
             /\ file' = file
        ELSE /\ last' = SubmitCall(judge_name, team_name, ratings, prep.kind, prep.msg)
             /\ file' = IF prep.write THEN to_csv(prep.df) ELSE file
     /\ UNCHANGED <<thr, nwrites, args, score>>

SubmitScore ==
  /\ \E call \in Calls, now \in Times :
       submit_score(call[1], call[2], call[3], now)
  /\ Len(file'.rows) <= MaxRows

\* generate_report()
GenerateReport ==
  /\ \E rep \in Reports(file) : last' = ReportCall(rep)
  /\ UNCHANGED <<file, thr, nwrites, args, score>>

Next == SubmitScore \/ GenerateReport

Spec == Init /\ [][Next]_vars

---------------------------------------------------------------------------
(* The report examined: valid submissions only, a smaller store *)

SubmitRanked ==
  /\ \E call \in RankCalls, now \in Times :
       submit_score(call[1], call[2], call[3], now)
  /\ Len(file'.rows) <= MaxRanked

NextRank == SubmitRanked \/ GenerateReport

SpecRank == Init /\ [][NextRank]_vars

---------------------------------------------------------------------------
(* The file changed from outside the program while it runs *)

\* scores.csv deleted: lines 9-13 create it at import only
EnvRemove ==
  /\ file.st # "absent"
  /\ file' = [st |-> "absent", rows |-> <<>>]
  /\ last' = NoCall
  /\ UNCHANGED <<thr, nwrites, args, score>>

\* scores.csv emptied to zero bytes: lines 14-16 repair it at import only
EnvTruncate ==
  /\ file.st # "zero"
  /\ file' = [st |-> "zero", rows |-> <<>>]
  /\ last' = NoCall
  /\ UNCHANGED <<thr, nwrites, args, score>>

NextEnv == SubmitRanked \/ GenerateReport \/ EnvRemove \/ EnvTruncate

SpecEnv == Init /\ [][NextEnv]_vars

---------------------------------------------------------------------------
(* Two submit_score calls running at once, one per thread *)

\* lines 28-32: the call is made and the name and the team are looked at
T_Call(p) ==
  /\ thr[p].pc = "idle"
  /\ \E call \in Calls :
       LET chk == NameCheck(call[1], call[2])
       IN thr' = [thr EXCEPT ![p] =
            [@ EXCEPT !.pc = IF chk.kind = "pass" THEN "read" ELSE "done",
                      !.judge_name = call[1], !.team_name = call[2],
                      !.ratings = call[3], !.kind = chk.kind, !.msg = chk.msg]]
  /\ UNCHANGED <<file, last, nwrites, args, score>>

\* lines 34-70: the store is read and the new frame built in memory
T_Read(p) ==
  /\ thr[p].pc = "read"
  /\ \E now \in Times :
       LET prep == Prepare(file, thr[p].judge_name, thr[p].team_name, thr[p].ratings, now)
       IN thr' = [thr EXCEPT ![p] =
            [@ EXCEPT !.pc = IF prep.write THEN "write" ELSE "done",
                      !.df = prep.df, !.kind = prep.kind, !.msg = prep.msg,
                      !.readAt = nwrites]]
  /\ UNCHANGED <<file, last, nwrites, args, score>>

\* the frame built again from the file as it is when the write is made
WriteFrame_reread(p) ==
  Prepare(file, thr[p].judge_name, thr[p].team_name, thr[p].ratings,
          thr[p].df[Len(thr[p].df)].timestamp).df

\* the frame line 71 writes: the one built from this call's own read
WriteFrame(p) == thr[p].df

\* lines 71-73: the frame is written over the file and the call returns
T_Write(p) ==
  /\ thr[p].pc = "write"
  /\ file' = to_csv(WriteFrame(p))
  /\ nwrites' = nwrites + 1
  /\ thr' = [thr EXCEPT ![p] = [@ EXCEPT !.pc = "done", !.wroteAt = nwrites + 1]]
  /\ UNCHANGED <<last, args, score>>

NextConc == \E p \in Procs : T_Call(p) \/ T_Read(p) \/ T_Write(p)

SpecConc == Init /\ [][NextConc]_vars

---------------------------------------------------------------------------
(* calculate_final_score on integer ratings *)

RatingRange == MinRating..MaxRating

InitPure ==
  /\ file = HeaderOnly
  /\ last = NoCall
  /\ thr = [p \in Procs |-> IdleThread]
  /\ nwrites = 0
  /\ args \in RatingRange \X RatingRange \X RatingRange \X RatingRange
  /\ score = -1

\* calculate_final_score(go_live, usefulness, taste, problem_statement) on
\* whole ratings, which are 100 hundredths each
Calculate ==
  /\ score = -1
  /\ score' = calculate_final_score(100 * args[1], 100 * args[2], 100 * args[3], 100 * args[4])
  /\ UNCHANGED <<file, last, thr, nwrites, args>>

SpecPure == InitPure /\ [][Calculate]_vars

---------------------------------------------------------------------------
(* Properties *)

RowKey(row) == <<Lower(Strip(row.judge_name)), row.team_name>>
CallKey(call) == <<Lower(Strip(call.judge_name)), call.team_name>>
RowRatings(row) == <<row.go_live, row.usefulness, row.taste, row.problem_statement>>
SubmittedOk(call) == call.op = "submit" /\ call.kind = "returned" /\ call.msg = Msg_Ok
Range(seq) == {seq[i] : i \in 1..Len(seq)}

\* C1: the store never holds two rows whose judge names are equal ignoring
\* case and surrounding blanks and whose team names are equal
C1_OneRecordPerKey ==
  \A i, j \in 1..Len(file.rows) :
    i # j => RowKey(file.rows[i]) # RowKey(file.rows[j])

C2_Replaced(before, after, call) ==
  LET mine == SelectSeq(after.rows, LAMBDA r : RowKey(r) = CallKey(call))
  IN /\ Len(mine) = 1
     /\ RowRatings(mine[1]) = call.ratings
     /\ Len(after.rows) = Len(before.rows)

\* C2: when a successful submit is followed by a successful submit for the
\* same judge (ignoring case) and team, the store then holds one record of
\* that pair, with the later ratings, and the earlier record is gone: the
\* store has as many rows as before the later call
C2_LaterSubmitReplaces ==
  [][(SubmittedOk(last) /\ SubmittedOk(last') /\ CallKey(last) = CallKey(last'))
       => C2_Replaced(file, file', last')]_vars

C3_Others(rows, call) == SelectSeq(rows, LAMBDA r : RowKey(r) # CallKey(call))

\* C3: a successful submit for (judge, team) leaves every record of another
\* key in the store with all its fields as they were
C3_OtherRecordsUntouched ==
  [][SubmittedOk(last') => C3_Others(file'.rows, last') = C3_Others(file.rows, last')]_vars

C4_Decided(before, after, call) ==
  IF ~OutOfRange(call.ratings)
  THEN /\ SubmittedOk(call)
       /\ after.rows # <<>>
       /\ RowRatings(after.rows[Len(after.rows)]) = call.ratings
       /\ RowKey(after.rows[Len(after.rows)]) = CallKey(call)
  ELSE /\ call.kind = "returned"
       /\ call.msg = Msg_Range
       /\ after = before

\* C4: a submit with a judge name and a team is accepted, and its record
\* written with its ratings, if the four ratings are all in 0..5; otherwise
\* it returns the out-of-range message and leaves the store as it was
C4_RatingsDecideAcceptance ==
  [][(last'.op = "submit" /\ NameCheck(last'.judge_name, last'.team_name).kind = "pass")
       => C4_Decided(file, file', last')]_vars

\* C5: no call of submit_score or generate_report ends in an exception
\* leaving the call: each returns a string
C5_NeverRaises == last.kind = "returned"

\* C6: calculate_final_score on whole ratings in 0..5 is
\* 6*go_live + 6*usefulness + 4*taste + 4*problem_statement (in hundredths:
\* times 100), is 100.00 for all fives, 0.00 for all zeros, 70.00 for
\* (4,3,5,2), and lies in 0..100
C6_FinalScoreFormula ==
  score # -1 =>
    /\ score = 100 * (6 * args[1] + 6 * args[2] + 4 * args[3] + 4 * args[4])
    /\ score >= 0 /\ score <= 10000
    /\ (args = <<5, 5, 5, 5>> => score = 10000)
    /\ (args = <<0, 0, 0, 0>> => score = 0)
    /\ (args = <<4, 3, 5, 2>> => score = 7000)

C6_Witness == args = <<4, 3, 5, 2>> /\ score = 7000

\* C7: in a ranking report every team with a record is ranked once, and a
\* team with a strictly greater final score has the smaller rank
C7_RankedDescending ==
  (last.op = "report" /\ last.msg = Msg_Report) =>
    /\ {last.ranked[i].team : i \in 1..Len(last.ranked)}
         = {file.rows[i].team_name : i \in 1..Len(file.rows)}
    /\ \A i, j \in 1..Len(last.ranked) :
         /\ (i # j => last.ranked[i].team # last.ranked[j].team)
         /\ (last.ranked[j].final_score > last.ranked[i].final_score => j < i)

C7_Witness ==
  /\ last.op = "report"
  /\ Len(last.ranked) >= 2
  /\ last.ranked[1].final_score > last.ranked[2].final_score

C8_Listed ==
  LET zero == {t \in TEAM_NAMES : \A i \in 1..Len(file.rows) : file.rows[i].team_name # t}
      ranked == {last.ranked[i].team : i \in 1..Len(last.ranked)}
  IN /\ Range(last.unscored) = zero
     /\ Range(last.unscored) \cap ranked = {}

\* C8 as amended: when generate_report is called on a store that holds a
\* record, the teams of TEAM_NAMES without a record are the teams listed as
\* not yet scored, and none of them is ranked
C8_UnscoredListedInRanking ==
  (last.op = "report" /\ file.st = "table" /\ file.rows # <<>>) =>
    (last.msg = Msg_Report /\ C8_Listed)

\* C8 as claimed: whenever generate_report is called, the teams without a
\* record are the teams listed as not yet scored
C8_UnscoredListedAlways == last.op = "report" => C8_Listed

C8_Witness ==
  /\ last.op = "report"
  /\ Len(last.ranked) >= 1
  /\ Len(last.unscored) >= 1

EmptyStore(f) == f.st \in {"absent", "zero"} \/ f.rows = <<>>

\* C9: generate_report on an empty store (header only, zero bytes, or no
\* file) returns the "No scores submitted yet!" message
C9_EmptyStoreMessage ==
  (last.op = "report" /\ EmptyStore(file)) => last.msg = Msg_Empty

ThreadOk(t) == t.pc = "done" /\ t.kind = "returned" /\ t.msg = Msg_Ok

HasRecord(f, t) ==
  \E i \in 1..Len(f.rows) :
    /\ f.rows[i].judge_name = Strip(t.judge_name)
    /\ f.rows[i].team_name = Strip(t.team_name)
    /\ RowRatings(f.rows[i]) = t.ratings

\* C10: when two calls for different pairs have both read the store before
\* either wrote it and both have returned the success message, the store
\* holds the later writer's record and not the earlier writer's
C10_LostUpdate ==
  \A p, q \in Procs :
    ( /\ p # q
      /\ ThreadOk(thr[p]) /\ ThreadOk(thr[q])
      /\ CallKey(thr[p]) # CallKey(thr[q])
      /\ thr[p].readAt = 0 /\ thr[q].readAt = 0
      /\ thr[p].wroteAt < thr[q].wroteAt )
    => (HasRecord(file, thr[q]) /\ ~HasRecord(file, thr[p]) /\ Len(file.rows) = 1)

C10_Witness ==
  \E p, q \in Procs :
    /\ p # q
    /\ ThreadOk(thr[p]) /\ ThreadOk(thr[q])
    /\ CallKey(thr[p]) # CallKey(thr[q])
    /\ thr[p].readAt = 0 /\ thr[q].readAt = 0
    /\ thr[p].wroteAt < thr[q].wroteAt
    /\ ~HasRecord(file, thr[p])

====
